---- MODULE Spec2Model ----
(***************************************************************************)
(* A model of the mounting middleware of reem/mount (src/src/mount.rs).    *)
(*                                                                         *)
(* A Mount owns a SequenceTrie from route keys (sequences of path          *)
(* segments) to Match values {handler, length}.  Mount::on parses a route  *)
(* string and inserts a Match; Mount::handle strips the matched prefix     *)
(* from the request path, records OriginalUrl and VirtualRoot in the       *)
(* request's extensions, calls the mounted handler and undoes its changes. *)
(* A mounted handler may itself be a Mount, so handle is modelled with an  *)
(* explicit stack of activation frames holding handle's local variables.   *)
(***************************************************************************)
EXTENDS Naturals, Sequences, FiniteSets

\* ------------------------------------------------------------------ bounds

\* Longest route string (in characters) passed to on().
MaxRouteLen == 4
\* Longest request path (in segments) a client sends.
MaxPathLen == 3
\* Number of on() calls made over all mounts.
MaxOn == 2

\* ---------------------------------------------------------------- universe

\* The characters of route strings: the separator and one name character.
Chars == {"/", "a"}
\* The segments of request paths: "" stands for an empty segment (what a
\* trailing or doubled slash leaves in Url::path).
Segs == {"", "a", "b"}
\* The Mount instances: M0 is the one the server calls, M1 may be mounted in it.
Mounts == {"M0", "M1"}
\* Handlers that are not mounts (closures in the tests).
Leaves == {"H1", "H2"}

\* All sequences over S of length at most n.
SeqsUpTo(S, n) == UNION {[1..k -> S] : k \in 0..n}

\* Route strings: sequences of characters whose components are single names.
RouteStrings ==
    {r \in SeqsUpTo(Chars, MaxRouteLen) :
        \A i \in 1..(Len(r) - 1) : r[i] = "/" \/ r[i + 1] = "/"}

\* Request paths.
Paths == SeqsUpTo(Segs, MaxPathLen)

\* Option values are sequences of length at most one.
None == << >>
Some(v) == <<v>>

VARIABLES
    inner,       \* inner[m]: the trie of mount m, a function from keys to Match
    moved,       \* the mounts that were moved into another mount by on()
    nOn,         \* the number of on() calls so far
    url,         \* req.url
    extensions,  \* req.extensions, restricted to OriginalUrl and VirtualRoot
    incoming,    \* the path of the request as the client sent it
    stack,       \* the activation frames of the handle calls in progress
    pc,          \* "setup", "idle", "call", "return" or "panicked"
    callee,      \* at pc = "call": the handler about to run
    res,         \* at pc = "return" or "idle": the IronResult last returned
    req2         \* a second request and the thread that handles it: a record
                 \* with the fields url, extensions, incoming, stack, pc,
                 \* callee and res, each as the variable of that name

vars == <<inner, moved, nOn, url, extensions, incoming, stack, pc, callee, res, req2>>

\* --------------------------------------------------------------- the trie

EmptyTrie == [k \in {} |-> None]

IsPrefix(p, s) == Len(p) <= Len(s) /\ SubSeq(s, 1, Len(p)) = p

\* SequenceTrie::insert: the value at key is replaced, other keys are kept.
Insert(trie, key, value) ==
    [k \in (DOMAIN trie) \cup {key} |-> IF k = key THEN value ELSE trie[k]]

\* A node exists for every prefix of an inserted key.
HasNode(trie, prefix) == \E k \in DOMAIN trie : IsPrefix(prefix, k)

\* The walk of SequenceTrie::get_ancestor: descend while a child exists and
\* remember the deepest node that holds a value.
RECURSIVE Walk(_, _, _, _)
Walk(trie, key, i, best) ==
    IF i < Len(key) /\ HasNode(trie, SubSeq(key, 1, i + 1))
    THEN Walk(trie, key, i + 1,
              IF SubSeq(key, 1, i + 1) \in DOMAIN trie
              THEN Some(trie[SubSeq(key, 1, i + 1)])
              ELSE best)
    ELSE best

GetAncestor(trie, key) ==
    Walk(trie, key, 0, IF << >> \in DOMAIN trie THEN Some(trie[<< >>]) ELSE None)

\* SequenceTrie::get: the value at exactly this key.
Get(trie, key) == IF key \in DOMAIN trie THEN Some(trie[key]) ELSE None

\* ------------------------------------------------------------- Mount::on

\* The components of a route string: the pieces between separators.
RECURSIVE Split(_, _, _, _)
Split(route, i, cur, acc) ==
    IF i > Len(route) THEN Append(acc, cur)
    ELSE IF route[i] = "/" THEN Split(route, i + 1, "", Append(acc, cur))
    ELSE Split(route, i + 1, cur \o route[i], acc)

NonEmpty(s) == s # ""

\* A plain split on the separator keeps the empty components.
ParseRouteKeepEmpty(route) == Split(route, 1, "", << >>)

\* Path::new(route).str_components(): Path::new drops empty components; a
\* relative path left with no component becomes ".".
ParseRoute(route) ==
    LET comps == SelectSeq(Split(route, 1, "", << >>), NonEmpty)
        is_abs == Len(route) > 0 /\ route[1] = "/"
    IN  IF comps = << >> /\ ~is_abs THEN <<".">> ELSE comps

\* The handlers on(m, ..) can be given: any closure, or a mount that has not
\* been moved yet.
Mountable(m) == IF m = "M0" THEN Mounts \ {"M0"} ELSE {}

OnTrieKeepFirst(trie, route, handler) ==
    LET key == ParseRoute(route)
    IN  IF key \in DOMAIN trie THEN trie
        ELSE Insert(trie, key, [handler |-> handler, length |-> Len(key)])

OnTrieLengthOfSplit(trie, route, handler) ==
    Insert(trie, ParseRoute(route),
           [handler |-> handler, length |-> Len(Split(route, 1, "", << >>))])

OnTrieCutsBelow(trie, route, handler) ==
    LET key == ParseRoute(route)
        put == Insert(trie, key, [handler |-> handler, length |-> Len(key)])
    IN  [k \in {k2 \in DOMAIN put : k2 = key \/ ~IsPrefix(key, k2)} |-> put[k]]

\* The trie after on(route, handler): the Match is stored under the parsed
\* key with the key's length.
OnTrie(trie, route, handler) ==
    LET key == ParseRoute(route)
    IN  Insert(trie, key, [handler |-> handler, length |-> Len(key)])

On(m, route, handler) ==
    /\ pc = "setup"
    /\ nOn < MaxOn
    /\ m \notin moved
    /\ handler \in Mounts => handler \in Mountable(m) \ moved
    /\ inner' = [inner EXCEPT ![m] = OnTrie(@, route, handler)]
    /\ moved' = IF handler \in Mounts THEN moved \cup {handler} ELSE moved
    /\ nOn' = nOn + 1
    /\ UNCHANGED <<url, extensions, incoming, stack, pc, callee, res, req2>>

\* ----------------------------------------------------------- the request

Url(path) == [host |-> "localhost", path |-> path]

NoExtensions == [OriginalUrl |-> None, VirtualRoot |-> None]

NoResult == [kind |-> "none", error |-> "", status |-> "", by |-> ""]
NoMatch == [kind |-> "Err", error |-> "NoMatch", status |-> "NotFound", by |-> ""]
HandlerResult(h, kind) ==
    [kind |-> kind,
     error |-> IF kind = "Err" THEN "HandlerError" ELSE "",
     status |-> IF kind = "Err" THEN "InternalServerError" ELSE "Ok",
     by |-> h]

\* A request with this path as the server hands it to a worker thread, and
\* the thread before it calls the mount.
Thread(path) ==
    [url |-> Url(path), extensions |-> NoExtensions, incoming |-> path,
     stack |-> << >>, pc |-> "idle", callee |-> "M0", res |-> NoResult]

\* A client sends a request.  It ends the registration phase: on() takes
\* &mut self, and the server owns the mount from then on.
NewRequest(path) ==
    /\ pc = "setup"
    /\ url' = Url(path)
    /\ extensions' = NoExtensions
    /\ incoming' = path
    /\ res' = NoResult
    /\ pc' = "idle"
    /\ UNCHANGED <<inner, moved, nOn, req2, stack, callee>>

\* The server passes the request to the outermost mount.
Dispatch ==
    /\ pc = "idle"
    /\ pc' = "call"
    /\ callee' = "M0"
    /\ res' = NoResult
    /\ UNCHANGED <<inner, moved, nOn, req2, url, extensions, incoming, stack>>

\* --------------------------------------------------------- Mount::handle

RECURSIVE RootInverted(_)
RootInverted(original) ==
    IF Len(original) > 0 /\ original[Len(original)] # ""
    THEN RootInverted(SubSeq(original, 1, Len(original) - 1))
    ELSE original

\* root: original without its trailing empty segments.
RECURSIVE Root(_)
Root(original) ==
    IF Len(original) > 0 /\ original[Len(original)] = ""
    THEN Root(SubSeq(original, 1, Len(original) - 1))
    ELSE original

LookupExact(trie, root) == Get(trie, root)

\* self.inner.get_ancestor(root)
Lookup(trie, root) == GetAncestor(trie, root)

SelectNonEmpty(trie, original) ==
    IF Root(original) = << >> THEN None ELSE Lookup(trie, Root(original))

\* The match handle selects for a request path: the lookup of its root.
Select(trie, original) == Lookup(trie, Root(original))

IsOuterAlways(ext) == TRUE

\* is_outer_mount
IsOuterMount(ext) == ext.OriginalUrl = None

EnterExtensionsUnstripped(ext, u, root, is_outer_mount) ==
    IF is_outer_mount
    THEN [OriginalUrl |-> Some(u), VirtualRoot |-> Some(u)]
    ELSE [ext EXCEPT !.VirtualRoot =
            IF @ = None THEN None
            ELSE Some([@[1] EXCEPT !.path = @ \o u.path])]

EnterExtensionsOriginalOnly(ext, u, root, is_outer_mount) ==
    IF is_outer_mount
    THEN [OriginalUrl |-> Some(u), VirtualRoot |-> None]
    ELSE ext

\* The extensions after the entry step.
EnterExtensions(ext, u, root, is_outer_mount) ==
    IF is_outer_mount
    THEN [OriginalUrl |-> Some(u),
          VirtualRoot |-> Some([u EXCEPT !.path = root])]
    ELSE [ext EXCEPT !.VirtualRoot =
            IF @ = None THEN None
            ELSE Some([@[1] EXCEPT !.path = @ \o root])]

RewriteRoot(path, length) == SubSeq(Root(path), length + 1, Len(Root(path)))

RewriteTrimmed(path, length) ==
    IF length = Len(Root(path)) THEN << >> ELSE SubSeq(path, length + 1, Len(path))

\* req.url.path.as_slice()[matched.length..].to_vec()
Rewrite(path, length) == SubSeq(path, length + 1, Len(path))

\* Vec::truncate: a length past the end leaves the vector alone.
Truncate(v, n) == IF n < Len(v) THEN SubSeq(v, 1, n) ELSE v

ExitExtensionsNoTruncate(ext, root, is_outer_mount) ==
    IF is_outer_mount THEN [OriginalUrl |-> None, VirtualRoot |-> None] ELSE ext

ExitExtensionsKeepVirtualRoot(ext, root, is_outer_mount) ==
    IF is_outer_mount
    THEN [ext EXCEPT !.OriginalUrl = None]
    ELSE [ext EXCEPT !.VirtualRoot =
            IF @ = None THEN None
            ELSE Some([@[1] EXCEPT !.path =
                    IF Len(@) >= Len(root) THEN Truncate(@, Len(@) - Len(root)) ELSE @])]

\* The extensions after the exit step.  old_len - root.len() is an unsigned
\* subtraction; when it wraps the new length is past the end.
ExitExtensions(ext, root, is_outer_mount) ==
    IF is_outer_mount
    THEN [OriginalUrl |-> None, VirtualRoot |-> None]
    ELSE [ext EXCEPT !.VirtualRoot =
            IF @ = None THEN None
            ELSE Some([@[1] EXCEPT !.path =
                    IF Len(@) >= Len(root) THEN Truncate(@, Len(@) - Len(root)) ELSE @])]

RestoredRoot(frame) == frame.root

\* The path written back after the handler returned.
Restored(frame) == frame.original

HandleNoMatchLeaky(m) ==
    /\ pc = "call"
    /\ callee = m
    /\ Select(inner[m], url.path) = None
    /\ pc' = "return"
    /\ res' = NoMatch
    /\ extensions' = EnterExtensions(extensions, url, Root(url.path),
                                     IsOuterMount(extensions))
    /\ UNCHANGED <<inner, moved, nOn, req2, url, incoming, stack, callee>>

\* handle finds no match and returns the NoMatch error.
HandleNoMatch(m) ==
    /\ pc = "call"
    /\ callee = m
    /\ Select(inner[m], url.path) = None
    /\ pc' = "return"
    /\ res' = NoMatch
    /\ UNCHANGED <<inner, moved, nOn, req2, url, extensions, incoming, stack, callee>>

HandleMatchTaking(m) ==
    /\ pc = "call"
    /\ callee = m
    /\ LET original == url.path
           root == Root(original)
           found == Select(inner[m], original)
       IN  /\ found # None
           /\ extensions' = EnterExtensions(extensions, url, root, IsOuterMount(extensions))
           /\ url' = [url EXCEPT !.path = Rewrite(@, found[1].length)]
           /\ stack' = Append(stack,
                  [self |-> m, original |-> original, root |-> root,
                   matched |-> found[1], is_outer_mount |-> IsOuterMount(extensions)])
           /\ callee' = found[1].handler
           /\ pc' = "call"
    /\ inner' = [inner EXCEPT ![m] = EmptyTrie]
    /\ UNCHANGED <<moved, nOn, req2, incoming, res>>

\* handle finds a match: it records the extensions, rewrites the path and
\* calls the matched handler.
HandleMatch(m) ==
    /\ pc = "call"
    /\ callee = m
    /\ LET original == url.path
           root == Root(original)
           found == Select(inner[m], original)
       IN  /\ found # None
           /\ LET matched == found[1]
                  is_outer_mount == IsOuterMount(extensions)
              IN  IF matched.length > Len(url.path)
                  THEN /\ pc' = "panicked"
                       /\ UNCHANGED <<url, extensions, stack, callee>>
                  ELSE /\ extensions' = EnterExtensions(extensions, url, root,
                                                        is_outer_mount)
                       /\ url' = [url EXCEPT !.path = Rewrite(@, matched.length)]
                       /\ stack' = Append(stack,
                              [self |-> m, original |-> original, root |-> root,
                               matched |-> matched, is_outer_mount |-> is_outer_mount])
                       /\ callee' = matched.handler
                       /\ pc' = "call"
    /\ UNCHANGED <<inner, moved, nOn, req2, incoming, res>>

\* A mounted closure runs: it sees url and extensions as they are now and
\* returns a response or an error.
RunLeaf(h, kind) ==
    /\ pc = "call"
    /\ callee = h
    /\ pc' = "return"
    /\ res' = HandlerResult(h, kind)
    /\ UNCHANGED <<inner, moved, nOn, req2, url, extensions, incoming, stack, callee>>

HandleReturnNotFound ==
    /\ pc = "return"
    /\ stack # << >>
    /\ LET frame == stack[Len(stack)]
       IN  /\ url' = [url EXCEPT !.path = Restored(frame)]
           /\ extensions' = ExitExtensions(extensions, frame.root, frame.is_outer_mount)
           /\ stack' = SubSeq(stack, 1, Len(stack) - 1)
           /\ callee' = frame.self
    /\ res' = IF res.kind = "Err" THEN NoMatch ELSE res
    /\ UNCHANGED <<inner, moved, nOn, req2, incoming, pc>>

\* The mounted handler returned to handle: the path and the extensions are
\* put back and the handler's result is returned.
HandleReturn ==
    /\ pc = "return"
    /\ stack # << >>
    /\ LET frame == stack[Len(stack)]
       IN  /\ url' = [url EXCEPT !.path = Restored(frame)]
           /\ extensions' = ExitExtensions(extensions, frame.root, frame.is_outer_mount)
           /\ stack' = SubSeq(stack, 1, Len(stack) - 1)
           /\ callee' = frame.self
    /\ UNCHANGED <<inner, moved, nOn, req2, incoming, pc, res>>

\* The outermost handle returned to the server.
Done ==
    /\ pc = "return"
    /\ stack = << >>
    /\ pc' = "idle"
    /\ UNCHANGED <<inner, moved, nOn, req2, url, extensions, incoming, stack, callee, res>>

\* ---------------------------------------------------------- specification

Init ==
    /\ inner = [m \in Mounts |-> EmptyTrie]
    /\ moved = {}
    /\ nOn = 0
    /\ url = Url(<<"">>)
    /\ extensions = NoExtensions
    /\ incoming = <<"">>
    /\ stack = << >>
    /\ pc = "setup"
    /\ callee = "M0"
    /\ res = NoResult
    /\ req2 = Thread(<<"">>)

Next ==
    \/ /\ pc = "setup"
       /\ \E m \in Mounts, route \in RouteStrings, h \in Leaves \cup Mounts :
              On(m, route, h)
    \/ /\ pc = "setup"
       /\ \E path \in Paths : NewRequest(path)
    \/ Dispatch
    \/ \E m \in Mounts : HandleNoMatch(m)
    \/ \E m \in Mounts : HandleMatch(m)
    \/ \E h \in Leaves, kind \in {"Ok", "Err"} : RunLeaf(h, kind)
    \/ HandleReturn
    \/ Done

Spec == Init /\ [][Next]_vars

\* ------------------------------------------- two requests, two threads

\* Mount is Send + Sync and handle takes &self: the server calls the same
\* mount from several threads, each with its own &mut Request.  The steps
\* below are those of handle on the second request; they interleave with
\* the steps of the first.

Dispatch2 ==
    /\ req2.pc = "idle"
    /\ req2' = [req2 EXCEPT !.pc = "call", !.callee = "M0", !.res = NoResult]
    /\ UNCHANGED <<inner, moved, nOn, url, extensions, incoming, stack, pc, callee, res>>

HandleNoMatch2(m) ==
    /\ req2.pc = "call"
    /\ req2.callee = m
    /\ Select(inner[m], req2.url.path) = None
    /\ req2' = [req2 EXCEPT !.pc = "return", !.res = NoMatch]
    /\ UNCHANGED <<inner, moved, nOn, url, extensions, incoming, stack, pc, callee, res>>

HandleMatch2(m) ==
    /\ req2.pc = "call"
    /\ req2.callee = m
    /\ LET original == req2.url.path
           root == Root(original)
           found == Select(inner[m], original)
       IN  /\ found # None
           /\ LET matched == found[1]
                  is_outer_mount == IsOuterMount(req2.extensions)
              IN  IF matched.length > Len(original)
                  THEN req2' = [req2 EXCEPT !.pc = "panicked"]
                  ELSE req2' = [req2 EXCEPT
                          !.extensions = EnterExtensions(@, req2.url, root, is_outer_mount),
                          !.url = [@ EXCEPT !.path = Rewrite(@, matched.length)],
                          !.stack = Append(@,
                              [self |-> m, original |-> original, root |-> root,
                               matched |-> matched, is_outer_mount |-> is_outer_mount]),
                          !.callee = matched.handler,
                          !.pc = "call"]
    /\ UNCHANGED <<inner, moved, nOn, url, extensions, incoming, stack, pc, callee, res>>

RunLeaf2(h, kind) ==
    /\ req2.pc = "call"
    /\ req2.callee = h
    /\ req2' = [req2 EXCEPT !.pc = "return", !.res = HandlerResult(h, kind)]
    /\ UNCHANGED <<inner, moved, nOn, url, extensions, incoming, stack, pc, callee, res>>

HandleReturn2 ==
    /\ req2.pc = "return"
    /\ req2.stack # << >>
    /\ LET frame == req2.stack[Len(req2.stack)]
       IN  req2' = [req2 EXCEPT
               !.url = [@ EXCEPT !.path = Restored(frame)],
               !.extensions = ExitExtensions(@, frame.root, frame.is_outer_mount),
               !.stack = SubSeq(@, 1, Len(@) - 1),
               !.callee = frame.self]
    /\ UNCHANGED <<inner, moved, nOn, url, extensions, incoming, stack, pc, callee, res>>

Done2 ==
    /\ req2.pc = "return"
    /\ req2.stack = << >>
    /\ req2' = [req2 EXCEPT !.pc = "idle"]
    /\ UNCHANGED <<inner, moved, nOn, url, extensions, incoming, stack, pc, callee, res>>

\* The routes and the request paths of the two-thread runs.
ConcRoutes == {<<"/">>, <<"/", "a">>}
ConcPaths == {<< >>, <<"a">>, <<"a", "">>, <<"a", "a">>, <<"b">>}

\* Serving starts after two registrations: a closure in M1, and a closure
\* or M1 in M0.  Two requests are then in the hands of two threads.
InitConc ==
    /\ \E r0 \in ConcRoutes, r1 \in ConcRoutes, h \in {"H1", "M1"} :
          /\ inner = [M0 |-> OnTrie(EmptyTrie, r0, h), M1 |-> OnTrie(EmptyTrie, r1, "H2")]
          /\ moved = IF h = "M1" THEN {"M1"} ELSE {}
    /\ nOn = 2
    /\ \E p1 \in ConcPaths, p2 \in ConcPaths :
          /\ url = Url(p1)
          /\ incoming = p1
          /\ req2 = Thread(p2)
    /\ extensions = NoExtensions
    /\ stack = << >>
    /\ pc = "idle"
    /\ callee = "M0"
    /\ res = NoResult

NextConc ==
    \/ Dispatch
    \/ \E m \in Mounts : HandleNoMatch(m)
    \/ \E m \in Mounts : HandleMatch(m)
    \/ \E h \in Leaves, kind \in {"Ok", "Err"} : RunLeaf(h, kind)
    \/ HandleReturn
    \/ Done
    \/ Dispatch2
    \/ \E m \in Mounts : HandleNoMatch2(m)
    \/ \E m \in Mounts : HandleMatch2(m)
    \/ \E h \in Leaves, kind \in {"Ok", "Err"} : RunLeaf2(h, kind)
    \/ HandleReturn2
    \/ Done2

SpecConc == InitConc /\ [][NextConc]_vars

\* ------------------------------------ sibling dispatches on one request

\* matched.handler is any Handler.  S1 is one that owns the mount M1 and
\* calls it twice on the request it was given, one call after the other,
\* and returns what the second call returned.  Its activation frame holds
\* its position only: "S1" during the first call, "S1b" during the second.
Chains == {"S1"}

ChainCall ==
    /\ pc = "call"
    /\ callee = "S1"
    /\ stack' = Append(stack, [self |-> "S1"])
    /\ callee' = "M1"
    /\ UNCHANGED <<inner, moved, nOn, req2, url, extensions, incoming, pc, res>>

ChainNext ==
    /\ pc = "return"
    /\ stack # << >>
    /\ stack[Len(stack)].self = "S1"
    /\ stack' = [stack EXCEPT ![Len(stack)] = [self |-> "S1b"]]
    /\ pc' = "call"
    /\ callee' = "M1"
    /\ res' = NoResult
    /\ UNCHANGED <<inner, moved, nOn, req2, url, extensions, incoming>>

ChainReturn ==
    /\ pc = "return"
    /\ stack # << >>
    /\ stack[Len(stack)].self = "S1b"
    /\ stack' = SubSeq(stack, 1, Len(stack) - 1)
    /\ callee' = "S1"
    /\ UNCHANGED <<inner, moved, nOn, req2, url, extensions, incoming, pc, res>>

\* handle returns into the mount that made the call.
MountReturn ==
    /\ stack # << >>
    /\ stack[Len(stack)].self \in Mounts
    /\ HandleReturn

\* The routes of the runs with sibling dispatches.
SibRoutes == {<<"/">>, <<"/", "a">>, <<"a", "/", "a">>}

\* Serving starts after two registrations: a closure in M1, and M1 or S1
\* (which owns M1) in M0.  One request is in the hands of the server.
InitSib ==
    /\ \E r0 \in SibRoutes, r1 \in SibRoutes, h \in {"M1", "S1"} :
          inner = [M0 |-> OnTrie(EmptyTrie, r0, h), M1 |-> OnTrie(EmptyTrie, r1, "H2")]
    /\ moved = {"M1"}
    /\ nOn = 2
    /\ \E path \in Paths :
          /\ url = Url(path)
          /\ incoming = path
    /\ extensions = NoExtensions
    /\ stack = << >>
    /\ pc = "idle"
    /\ callee = "M0"
    /\ res = NoResult
    /\ req2 = Thread(<<"">>)

NextSib ==
    \/ Dispatch
    \/ \E m \in Mounts : HandleNoMatch(m)
    \/ \E m \in Mounts : HandleMatch(m)
    \/ \E h \in Leaves, kind \in {"Ok", "Err"} : RunLeaf(h, kind)
    \/ ChainCall
    \/ ChainNext
    \/ ChainReturn
    \/ MountReturn
    \/ Done

SpecSib == InitSib /\ [][NextSib]_vars

\* ------------------------------------------------------------ properties

\* The number of trailing empty segments of a path is what is left when the
\* longest prefix that is empty or ends in a non-empty segment is removed.
StrippedLen(path) ==
    CHOOSE n \in 0..Len(path) :
        /\ n = 0 \/ path[n] # ""
        /\ \A i \in (n + 1)..Len(path) : path[i] = ""

Stripped(path) == SubSeq(path, 1, StrippedLen(path))

\* The registered routes of mount m that are a prefix of the stripped path.
RegisteredPrefixes(m, path) ==
    {k \in DOMAIN inner[m] : IsPrefix(k, Stripped(path))}

LongestPrefix(m, path) ==
    CHOOSE k \in RegisteredPrefixes(m, path) :
        \A k2 \in RegisteredPrefixes(m, path) : Len(k2) <= Len(k)

Drop(path, n) == SubSeq(path, n + 1, Len(path))

Top == stack[Len(stack)]

\* The segments consumed by the first n frames of the stack.
RECURSIVE ConsumedLen(_)
ConsumedLen(n) == IF n = 0 THEN 0 ELSE ConsumedLen(n - 1) + stack[n].matched.length

RECURSIVE ConsumedPrefixes(_)
ConsumedPrefixes(n) ==
    IF n = 0 THEN << >>
    ELSE ConsumedPrefixes(n - 1) \o SubSeq(stack[n].original, 1, stack[n].matched.length)

Slashes(k) == [i \in 1..k |-> "/"]
Empties(k) == [i \in 1..k |-> ""]

\* A handler mounted in some mount is about to run.
InHandler == pc = "call" /\ stack # << >>

\* C1: when a mount is called and some registered route is a prefix of the
\* request path without its trailing empty segments, the handler bound to the
\* longest such route is the one invoked.
C1_LongestPrefixInvoked ==
    [][(pc = "call" /\ callee \in Mounts /\ RegisteredPrefixes(callee, url.path) # {})
        => LET m == callee
               longest == LongestPrefix(m, url.path)
           IN  /\ pc' = "call"
               /\ callee' = inner[m][longest].handler
               /\ Len(stack') = Len(stack) + 1
               /\ stack'[Len(stack')].matched = inner[m][longest]
               /\ stack'[Len(stack')].matched.length = Len(longest)]_vars

\* C1 witness: /a and /a/a are both registered and the request /a/a/b reaches
\* the handler of /a/a, not the one of /a.
C1_Witness ==
    /\ InHandler
    /\ Len(stack) = 1
    /\ DOMAIN inner["M0"] = {<<"a">>, <<"a", "a">>}
    /\ inner["M0"][<<"a">>].handler # inner["M0"][<<"a", "a">>].handler
    /\ incoming = <<"a", "a", "b">>
    /\ callee = inner["M0"][<<"a", "a">>].handler

\* C2: the handler sees the original path from the matched prefix length on,
\* trailing empty segments included; under nested mounts it sees the client's
\* path with the prefix lengths of all enclosing mounts removed.
C2_HandlerSeesRemainder ==
    InHandler =>
        /\ url.path = Drop(Top.original, Top.matched.length)
        /\ Top.original = Drop(incoming, ConsumedLen(Len(stack) - 1))
        /\ url.path = Drop(incoming, ConsumedLen(Len(stack)))

\* C2 witness: nested mounts each consume one segment of /a/a/ and the
\* closure sees the trailing empty segment that is left.
C2_Witness ==
    /\ InHandler
    /\ callee \in Leaves
    /\ Len(stack) = 2
    /\ stack[1].matched.length = 1
    /\ stack[2].matched.length = 1
    /\ incoming = <<"a", "a", "">>
    /\ url.path = <<"">>

\* C3: when a mount returns, with a response or an error, the path is the one
\* the mount was entered with, trailing empty segments included.
C3_PathRestored ==
    /\ (pc = "return" /\ callee \in Mounts) =>
            url.path = Drop(incoming, ConsumedLen(Len(stack)))
    /\ pc = "idle" => url.path = incoming

\* C3 witness: the inner of two mounts has returned a handler's error and the
\* path with its trailing empty segment is back.
C3_Witness ==
    /\ pc = "return"
    /\ callee = "M1"
    /\ Len(stack) = 1
    /\ res.error = "HandlerError"
    /\ incoming = <<"a", "a", "">>
    /\ url.path = <<"a", "">>

\* C4: when the outermost mount has returned, OriginalUrl and VirtualRoot are
\* both absent, and every dispatch by the server enters as the outermost mount.
C4_NoLeak ==
    /\ ((pc = "return" /\ stack = << >>) \/ pc = "idle") => extensions = NoExtensions
    /\ (pc = "call" /\ stack = << >>) => extensions = NoExtensions
    /\ stack # << >> => stack[1].is_outer_mount

\* C4 witness: the outermost mount matched and returns the NoMatch error of the
\* mount nested in it.
C4_Witness ==
    /\ pc = "return"
    /\ stack = << >>
    /\ callee = "M0"
    /\ res = NoMatch
    /\ RegisteredPrefixes("M0", url.path) # {}

\* C5 (as claimed): while a closure runs, VirtualRoot.path is the
\* concatenation of the prefixes consumed by the enclosing mounts.
C5_VirtualRootIsConsumed ==
    (InHandler /\ callee \in Leaves) =>
        /\ extensions.VirtualRoot # None
        /\ extensions.VirtualRoot[1].path = ConsumedPrefixes(Len(stack))

\* C6: a mount called with a path no registered route is a prefix of returns
\* NoMatch with the not-found status, calls no handler and leaves the path and
\* the extensions as they were.
C6_NoMatchLeavesRequest ==
    [][(pc = "call" /\ callee \in Mounts /\ RegisteredPrefixes(callee, url.path) = {})
        => /\ pc' = "return"
           /\ res' = NoMatch
           /\ res'.status = "NotFound"
           /\ callee' = callee
           /\ stack' = stack
           /\ url' = url
           /\ extensions' = extensions]_vars

\* C6 witness: a mount with a route returned NoMatch for /b.
C6_Witness ==
    /\ pc = "return"
    /\ callee = "M0"
    /\ stack = << >>
    /\ res = NoMatch
    /\ DOMAIN inner["M0"] = {<<"a">>}
    /\ incoming = <<"b">>
    /\ url.path = incoming
    /\ extensions = NoExtensions

\* C7: a path followed by any number of empty segments selects what the path
\* without its trailing empty segments selects.
C7_TrailingSlashIdempotent ==
    pc = "setup" =>
        \A m \in Mounts, p \in Paths, k \in 0..MaxPathLen :
            Select(inner[m], p \o Empties(k)) = Select(inner[m], Stripped(p))

\* C7 witness: /a// reached the handler mounted on /a.
C7_Witness ==
    /\ InHandler
    /\ callee \in Leaves
    /\ incoming = <<"a", "", "">>
    /\ Top.matched.length = 1
    /\ <<"a">> \in DOMAIN inner["M0"]

\* C8 (as claimed): when the matched route is the whole stripped path the
\* handler sees a path of zero segments.
C8_EmptyRemainderIsEmptyPath ==
    (InHandler /\ Top.matched.length = StrippedLen(Top.original)) => url.path = << >>

\* C8 (amended): when the matched route is the whole stripped path the handler
\* sees the trailing empty segments of the original path and nothing else:
\* zero segments exactly when the original path had no trailing empty segment.
C8_EmptyRemainderIsTrailingSlashes ==
    (InHandler /\ Top.matched.length = StrippedLen(Top.original)) =>
        /\ url.path = Empties(Len(Top.original) - StrippedLen(Top.original))
        /\ url.path = << >> <=> Stripped(Top.original) = Top.original

\* C8 witness: /a/ matched /a and the handler sees one empty segment.
C8_Witness ==
    /\ InHandler
    /\ callee \in Leaves
    /\ incoming = <<"a", "">>
    /\ Top.matched.length = 1
    /\ url.path = <<"">>

\* C9: while any mount is active OriginalUrl is the url the outermost mount
\* received, and the outermost frame is the only one that inserted it.
C9_OriginalUrlFromOutermost ==
    stack # << >> =>
        /\ extensions.OriginalUrl = Some(Url(incoming))
        /\ stack[1].is_outer_mount
        /\ stack[1].original = incoming
        /\ \A i \in 2..Len(stack) : ~stack[i].is_outer_mount

\* C9 witness: the inner of two mounts has returned and OriginalUrl is still
\* the client's url, which differs from the rewritten one.
C9_Witness ==
    /\ pc = "return"
    /\ callee = "M1"
    /\ Len(stack) = 1
    /\ incoming = <<"a", "a", "">>
    /\ url.path # incoming
    /\ extensions.OriginalUrl = Some(Url(incoming))

C11_LastRegistrationWins ==
    pc = "setup" =>
        \A m \in Mounts, r \in RouteStrings, h1 \in Leaves, h2 \in Leaves :
            LET key == ParseRoute(r)
                before == inner[m]
                after == OnTrie(OnTrie(before, r, h1), r, h2)
            IN  /\ DOMAIN after = (DOMAIN before) \cup {key}
                /\ after[key].handler = h2
                /\ \A k \in (DOMAIN before) \ {key} : after[k] = before[k]
                /\ \A tail \in SeqsUpTo(Segs, 1) :
                      LET found == Select(after, key \o tail)
                      IN  /\ found # None
                          /\ found[1].length = Len(key) => found[1].handler = h2

\* C11 witness: two on() calls left one binding, so the second replaced the
\* first, and a request for the route reaches the handler bound there now.
C11_Witness ==
    /\ nOn = 2
    /\ DOMAIN inner["M0"] = {<<"a">>}
    /\ DOMAIN inner["M1"] = {}
    /\ InHandler
    /\ incoming = <<"a", "b">>
    /\ callee = inner["M0"][<<"a">>].handler

\* C12 (as claimed): a mount with a handler on the root route never returns
\* NoMatch.
C12_RootNeverReturnsNoMatch ==
    (pc = "return" /\ callee \in Mounts /\ << >> \in DOMAIN inner[callee])
        => res # NoMatch

\* C12 (amended): a mount with a handler on the root route always finds a
\* match and calls a handler, so it never originates NoMatch; when no more
\* specific route is a prefix of the path it calls the root handler with
\* prefix length 0 and the whole path.
C12_RootAlwaysMatches ==
    [][(pc = "call" /\ callee \in Mounts /\ << >> \in DOMAIN inner[callee])
        => /\ pc' = "call"
           /\ Len(stack') = Len(stack) + 1
           /\ RegisteredPrefixes(callee, url.path) = {<< >>}
                => /\ callee' = inner[callee][<< >>].handler
                   /\ stack'[Len(stack')].matched.length = 0
                   /\ url'.path = url.path]_vars

\* C12 witness: the request / reached the handler on the root route, which
\* sees the path as the client sent it.
C12_Witness ==
    /\ InHandler
    /\ Len(stack) = 1
    /\ callee \in Leaves
    /\ << >> \in DOMAIN inner["M0"]
    /\ incoming = <<"">>
    /\ Top.matched.length = 0
    /\ url.path = incoming

\* C13: a mount that matched calls the matched handler once and returns the
\* handler's result as it is, after the path and the extensions were put
\* back; the only result a mount makes itself is the NoMatch error.
C13_ResultPassedThrough ==
    /\ [][(pc = "call" /\ callee \in Mounts /\ pc' = "call")
            => /\ callee' = stack'[Len(stack')].matched.handler
               /\ res' = res]_vars
    /\ [][(pc = "return" /\ stack # << >>)
            => /\ pc' = "return"
               /\ res' = res
               /\ stack' = SubSeq(stack, 1, Len(stack) - 1)
               /\ url'.path = Top.original
               /\ Top.is_outer_mount => extensions' = NoExtensions]_vars
    /\ [][(pc = "call" /\ callee \in Mounts /\ pc' = "return") => res' = NoMatch]_vars
    /\ [](pc \in {"return", "idle"} =>
            \/ res = NoResult
            \/ res = NoMatch
            \/ \E h \in Leaves, kind \in {"Ok", "Err"} : res = HandlerResult(h, kind))

\* C13 witness: the outermost mount returned the error of the closure it
\* called, with the path and the extensions as the client sent them.
C13_Witness ==
    /\ pc = "return"
    /\ stack = << >>
    /\ callee = "M0"
    /\ res = HandlerResult("H1", "Err")
    /\ incoming = <<"a", "b", "">>
    /\ url.path = incoming
    /\ extensions = NoExtensions

\* The routes swapped in C14, one or two for each kind of key: "" (key
\* <<".">>), "/" and "//" (the empty key), "/a" and "a/" (one component) and
\* "/a/a" (a key below another).  They are added to every reachable trie.
OrderRoutes ==
    {<< >>, <<"/">>, <<"/", "/">>, <<"/", "a">>, <<"a", "/">>, <<"/", "a", "/", "a">>}

\* C14: registering two routes with different keys in either order gives the
\* same bindings, so every request path selects the same handler with the
\* same prefix length whatever the order of registration was.
C14_OrderIndependent ==
    pc = "setup" =>
        \A m \in Mounts : \A r1 \in OrderRoutes, r2 \in OrderRoutes :
            ParseRoute(r1) # ParseRoute(r2) =>
                LET ab == OnTrie(OnTrie(inner[m], r1, "H1"), r2, "H2")
                    ba == OnTrie(OnTrie(inner[m], r2, "H2"), r1, "H1")
                IN  /\ ab = ba
                    /\ \A p \in {ParseRoute(r1), ParseRoute(r2) \o <<"">>,
                                 ParseRoute(r1) \o <<"b", "">>, <<"b">>} :
                          Select(ab, p) = Select(ba, p)

\* C14 witness: a route and a longer route below it are both registered, and
\* a request under the longer one reached the handler bound to it.
C14_Witness ==
    /\ DOMAIN inner["M0"] = {<<"a">>, <<"a", "a">>}
    /\ inner["M0"][<<"a">>].handler # inner["M0"][<<"a", "a">>].handler
    /\ InHandler
    /\ incoming = <<"a", "a", "b">>
    /\ callee = inner["M0"][<<"a", "a">>].handler
    /\ Top.matched.length = 2

\* The first request and its thread, as a record like req2.
Req1 ==
    [url |-> url, extensions |-> extensions, incoming |-> incoming,
     stack |-> stack, pc |-> pc, callee |-> callee, res |-> res]

\* A dispatch run alone, start to end, on the tries as they are: the closure
\* it reaches with the url and the extensions that closure observes, or
\* handler "none" where a mount on the way finds no match.
RECURSIVE Descend(_, _, _)
Descend(m, u, ext) ==
    LET found == Select(inner[m], u.path)
    IN  IF found = None
        THEN [handler |-> "none", url |-> u, extensions |-> ext]
        ELSE LET ext2 == EnterExtensions(ext, u, Root(u.path), IsOuterMount(ext))
                 u2 == [u EXCEPT !.path = Rewrite(@, found[1].length)]
             IN  IF found[1].handler \in Mounts
                 THEN Descend(found[1].handler, u2, ext2)
                 ELSE [handler |-> found[1].handler, url |-> u2, extensions |-> ext2]

Alone(path) == Descend("M0", Url(path), NoExtensions)

\* What a thread may observe of its request agrees with the run alone.
AsAlone(t) ==
    /\ t.pc # "panicked"
    /\ (t.pc = "call" /\ t.callee \in Leaves)
          => /\ Alone(t.incoming).handler = t.callee
             /\ Alone(t.incoming).url = t.url
             /\ Alone(t.incoming).extensions = t.extensions
    /\ (t.pc = "return" /\ t.res # NoMatch) => t.res.by = Alone(t.incoming).handler
    /\ (t.pc = "return" /\ t.res = NoMatch) => Alone(t.incoming).handler = "none"
    /\ (t.stack = << >> /\ (t.pc = "return" \/ (t.pc = "idle" /\ t.res # NoResult)))
          => /\ t.url = Url(t.incoming)
             /\ t.extensions = NoExtensions
             /\ \/ t.res = NoMatch /\ Alone(t.incoming).handler = "none"
                \/ \E kind \in {"Ok", "Err"} :
                      t.res = HandlerResult(Alone(t.incoming).handler, kind)

\* C15: while two threads dispatch two requests through the same mount, in
\* any interleaving of their steps, no step changes a trie, and each request
\* reaches the handler, shows it the path and the extensions, gets the
\* result and ends in the state of its dispatch run alone.
C15_ConcurrentAsAlone ==
    /\ [][inner' = inner]_vars
    /\ [](AsAlone(Req1) /\ AsAlone(req2))

\* C15 witness: the first request is inside the closure of the nested mount
\* while the second, on another path, is between the returns of the two
\* mounts it went through.
C15_Witness ==
    /\ incoming = <<"a", "a">>
    /\ req2.incoming = <<"a", "">>
    /\ pc = "call" /\ callee = "H2" /\ Len(stack) = 2 /\ url.path = <<"a">>
    /\ req2.pc = "return" /\ Len(req2.stack) = 1 /\ req2.url.path = <<"">>
    /\ req2.res = HandlerResult("H2", "Err")

\* The roots pushed by the mounts of the first n frames of the stack, in order.
RECURSIVE MountRoots(_)
MountRoots(n) ==
    IF n = 0 THEN << >>
    ELSE IF stack[n].self \in Mounts THEN MountRoots(n - 1) \o stack[n].root
    ELSE MountRoots(n - 1)

HasMountFrame == \E i \in 1..Len(stack) : stack[i].self \in Mounts

\* C16: between the entry of the outermost mount and its exit, VirtualRoot.path
\* is the roots appended by the mounts now on the stack, whatever dispatches
\* were entered and left since: a nested dispatch that returned (with a
\* response, a handler error or NoMatch, alone or after a sibling) has left
\* VirtualRoot.path as it was when that dispatch was entered, and the path is
\* never shorter than the root a returning nested mount takes off it.
C16_NestedExitUndoesEntry ==
    /\ (pc \in {"call", "return"} /\ HasMountFrame)
          => /\ extensions.VirtualRoot # None
             /\ extensions.VirtualRoot[1].path = MountRoots(Len(stack))
    /\ (pc = "return" /\ stack # << >> /\ Top.self \in Mounts /\ ~Top.is_outer_mount)
          => Len(extensions.VirtualRoot[1].path) >= Len(Top.root)

\* C16 witness: the second of two sibling dispatches into the nested mount
\* has returned a handler error, after appending a non-empty root, and
\* VirtualRoot.path is again what the outer mount had set.
C16_Witness ==
    /\ pc = "return"
    /\ callee = "M1"
    /\ Len(stack) = 2
    /\ stack[2].self = "S1b"
    /\ incoming = <<"a", "a", "">>
    /\ inner["M1"] = OnTrie(EmptyTrie, <<"/", "a">>, "H2")
    /\ res = HandlerResult("H2", "Err")
    /\ extensions.VirtualRoot[1].path = <<"a", "a">>

\* C17: in every state of a request that arrived with neither key, through
\* nested dispatches, sibling dispatches and repeated outermost dispatches,
\* VirtualRoot is present exactly when OriginalUrl is present; both are
\* present exactly while a mount that matched is on the stack.
C17_VirtualRootIffOriginalUrl ==
    /\ (extensions.VirtualRoot # None) <=> (extensions.OriginalUrl # None)
    /\ (extensions.OriginalUrl # None) <=> HasMountFrame

\* C17 witness: inside the closure reached by the second sibling dispatch,
\* two mounts deep, both keys are present.
C17_Witness ==
    /\ pc = "call"
    /\ callee = "H2"
    /\ Len(stack) = 3
    /\ stack[2].self = "S1b"
    /\ extensions.OriginalUrl = Some(Url(<<"a", "b">>))
    /\ extensions.VirtualRoot # None

C19_SliceInBounds ==
    /\ \A m \in Mounts : \A key \in DOMAIN inner[m] : inner[m][key].length = Len(key)
    /\ \A i \in 1..Len(stack) :
          /\ stack[i].matched.length <= Len(stack[i].root)
          /\ Len(stack[i].root) <= Len(stack[i].original)
          /\ stack[i].root = Stripped(stack[i].original)
    /\ pc # "panicked"

\* C19 witness: a path of two empty segments matched the binding of the
\* empty key; its root is empty and nothing was cut off the path.
C19_Witness ==
    /\ InHandler
    /\ Len(stack) = 1
    /\ incoming = <<"", "">>
    /\ Top.root = << >>
    /\ Top.matched.length = 0
    /\ url.path = <<"", "">>

====
